---- MODULE Spec2Model ----
(***************************************************************************)
(* The PCA notebook src/pca.ipynb as a state machine.                      *)
(*                                                                         *)
(* The state is the kernel's namespace (one variable per name the cells    *)
(* assign or read), the position in the notebook (pc), the exception of    *)
(* the cell executed last (err) and whether the run was abandoned          *)
(* (halted).  One action per code cell, named after the source line of    *)
(* the cell's first statement.  Cells run top to bottom; a cell that       *)
(* raises leaves the assignments it made before the exception, and the run *)
(* then either stops (Run All) or goes on with the next cell (cell by      *)
(* cell).  Series.replace and Series.fillna with inplace=True on a column  *)
(* of a frame write through to the frame, as the notebook relies on.       *)
(*                                                                         *)
(* Numbers are exact: a float is n / (d * sqrt(r)) with r square-free, so  *)
(* means, variances, standard deviations, covariances and unit             *)
(* eigenvectors are represented without rounding.                          *)
(***************************************************************************)
EXTENDS Integers, Sequences, FiniteSets, TLC

VARIABLES pc, err, halted, Out, defs,
          cars, X_train, X_test, ss, X_tr_sc, lr,
          test_cleaned, test_floated, test_dropped, test_scaled,
          A, v, q, cov_mat, eigvals, eigvecs, eigpairs, pcabh,
          X_train_new, lr_pca, pca, X_te_sc, X_test_new

vars == <<pc, err, halted, Out, defs,
          cars, X_train, X_test, ss, X_tr_sc, lr,
          test_cleaned, test_floated, test_dropped, test_scaled,
          A, v, q, cov_mat, eigvals, eigvecs, eigpairs, pcabh,
          X_train_new, lr_pca, pca, X_te_sc, X_test_new>>

-----------------------------------------------------------------------------
(* Bounds of the model.                                                    *)

\* Largest absolute component of the integer directions among which the
\* eigenvector search looks.
MaxComp == 1

\* Number of leading columns of the eigenvector matrix that an
\* eigendecomposition returns with either sign (the columns after them come
\* with the first non-zero component positive).
MaxFlips == 1

\* Largest number of eigenpairs that an eigendecomposition returns at a
\* place other than the one the descending order of eigenvalues gives them.
MaxMoved == 2

\* Rows of the tables on which the test-set chain is compared with the
\* training-set cells.
MaxRows == 2

-----------------------------------------------------------------------------
(* Python values.                                                          *)

\* A name that no executed cell has bound: reading it raises NameError.
Undef == [t |-> "undef"]

\* np.nan
NaN == [t |-> "nan"]

\* A Python str, as the sequence of its characters.
Str(s) == [t |-> "str", s |-> s]

\* A Python / numpy integer.
PyInt(i) == [t |-> "int", v |-> i]

\* The blank placeholder ' ' of the csv file.
Blank == Str(<<" ">>)

Abs(i) == IF i < 0 THEN -i ELSE i

RECURSIVE GCD(_, _)
GCD(a, b) == IF b = 0 THEN Abs(a) ELSE GCD(b, a % b)

\* The float n / (d * sqrt(r)), d # 0, r >= 1 square-free, in lowest terms.
Flt(n, d, r) ==
    IF n = 0 THEN [t |-> "float", n |-> 0, d |-> 1, r |-> 1]
    ELSE LET g == GCD(n, d)
             s == IF d < 0 THEN -1 ELSE 1
         IN  [t |-> "float", n |-> s * (n \div g), d |-> s * (d \div g), r |-> r]

Num(i) == Flt(i, 1, 1)

IsNaN(x) == x.t = "nan"

IsFloat(x) == x.t = "float"

\* A sum whose terms have different radicands has no n/(d*sqrt(r)) form.
Irrep == [t |-> "irrep"]

FAdd(a, b) ==
    IF IsNaN(a) \/ IsNaN(b) THEN NaN
    ELSE IF a.n = 0 THEN b
    ELSE IF b.n = 0 THEN a
    ELSE IF a.r = b.r THEN Flt(a.n * b.d + b.n * a.d, a.d * b.d, a.r)
    ELSE Irrep

FNeg(a) == IF IsNaN(a) THEN NaN ELSE Flt(-a.n, a.d, a.r)

FSub(a, b) == FAdd(a, FNeg(b))

FMul(a, b) ==
    IF IsNaN(a) \/ IsNaN(b) THEN NaN
    ELSE LET g == GCD(a.r, b.r)
         IN  Flt(a.n * b.n, a.d * b.d * g, (a.r \div g) * (b.r \div g))

\* 1 / (n / (d sqrt r)) = d r / (n sqrt r); 1/0 is nan here (numpy gives
\* inf or nan with a warning; the pipeline never divides by zero, the
\* scaler replaces a zero scale by 1).
FInv(a) ==
    IF IsNaN(a) \/ a.n = 0 THEN NaN ELSE Flt(a.d * a.r, a.n, a.r)

FDiv(a, b) == FMul(a, FInv(b))

RECURSIVE SqScan(_, _, _)
SqScan(m, s, best) ==
    IF s * s > m THEN best
    ELSE SqScan(m, s + 1, IF m % (s * s) = 0 THEN s ELSE best)

\* The largest s with s*s dividing m (m >= 1).
SqPart(m) == SqScan(m, 1, 1)

\* np.sqrt of a non-negative rational n/d: sqrt(n d)/d, and with
\* n d = s^2 k, k square-free, that is s k / (d sqrt k).
FSqrt(a) ==
    IF IsNaN(a) THEN NaN
    ELSE IF a.n = 0 THEN Num(0)
    ELSE LET m == a.n * a.d
             s == SqPart(m)
             k == m \div (s * s)
         IN  Flt(s * k, a.d, k)

\* a < b for rationals (r = 1).
FLess(a, b) == a.n * b.d < b.n * a.d

RECURSIVE FSum(_)
FSum(xs) == IF xs = <<>> THEN Num(0) ELSE FAdd(Head(xs), FSum(Tail(xs)))

-----------------------------------------------------------------------------
(* float(x), the conversion that Series.map(float) applies to each cell.   *)

Digits == {"0", "1", "2", "3", "4", "5", "6", "7", "8", "9"}

DigitVal == ("0" :> 0) @@ ("1" :> 1) @@ ("2" :> 2) @@ ("3" :> 3) @@ ("4" :> 4)
            @@ ("5" :> 5) @@ ("6" :> 6) @@ ("7" :> 7) @@ ("8" :> 8) @@ ("9" :> 9)

RECURSIVE LStrip(_)
LStrip(s) ==
    IF s # <<>> /\ Head(s) = " " THEN LStrip(Tail(s)) ELSE s

RECURSIVE RStrip(_)
RStrip(s) ==
    IF s # <<>> /\ s[Len(s)] = " " THEN RStrip(SubSeq(s, 1, Len(s) - 1)) ELSE s

RECURSIVE ParseDigits(_, _)
ParseDigits(s, acc) ==
    IF s = <<>> THEN acc ELSE ParseDigits(Tail(s), 10 * acc + DigitVal[Head(s)])

\* float(x): a str is stripped of surrounding blanks and parsed (the model's
\* strings hold unsigned decimal integers, blanks or other text); a str
\* with no number in it, such as ' ', raises ValueError.
PyFloat(x) ==
    CASE x.t = "str" ->
            LET s == RStrip(LStrip(x.s))
            IN  IF s # <<>> /\ \A i \in 1..Len(s) : s[i] \in Digits
                THEN [ok |-> TRUE, val |-> Num(ParseDigits(s, 0))]
                ELSE [ok |-> FALSE, val |-> NaN]
      [] x.t = "int"   -> [ok |-> TRUE, val |-> Num(x.v)]
      [] OTHER         -> [ok |-> TRUE, val |-> x]

-----------------------------------------------------------------------------
(* pandas: a DataFrame is its column labels in order and, per label, the   *)
(* column's cells.                                                         *)

DataFrame(cols, data) == [t |-> "df", cols |-> cols, data |-> data]

Labels(df) == {df.cols[i] : i \in 1..Len(df.cols)}

NRows(df) == IF df.cols = <<>> THEN 0 ELSE Len(df.data[df.cols[1]])

\* df[col] = series
SetCol(df, col, series) ==
    [df EXCEPT !.data = [c \in Labels(df) |-> IF c = col THEN series ELSE df.data[c]]]

\* Series.replace(old, new, inplace=True); np.nan as old matches the missing cells.
SeriesReplace(series, old, new) ==
    [i \in 1..Len(series) |-> IF series[i] = old THEN new ELSE series[i]]

\* Series.map(float): ValueError as soon as one cell does not convert.
SeriesMapFloat(series) ==
    IF \A i \in 1..Len(series) : PyFloat(series[i]).ok
    THEN [ok |-> TRUE, val |-> [i \in 1..Len(series) |-> PyFloat(series[i]).val]]
    ELSE [ok |-> FALSE, val |-> series]

RECURSIVE SelectPresent(_)
SelectPresent(series) ==
    IF series = <<>> THEN <<>>
    ELSE IF IsNaN(Head(series)) THEN SelectPresent(Tail(series))
    ELSE <<Head(series)>> \o SelectPresent(Tail(series))

\* Series.mean(), skipna=True (the default): the mean of the cells that are
\* not missing, and nan when every cell is missing.
SeriesMean(series) ==
    LET present == SelectPresent(series)
    IN  IF present = <<>> THEN NaN
        ELSE FDiv(FSum(present), Num(Len(present)))

\* Series.fillna(value, inplace=True)
SeriesFillna(series, value) == SeriesReplace(series, NaN, value)

\* DataFrame.drop(label, axis=1): a new frame; KeyError when the label is
\* not a column.
DropColumn(df, label) ==
    IF label \notin Labels(df) THEN [ok |-> FALSE, val |-> df]
    ELSE LET keep == SelectSeq(df.cols, LAMBDA c : c # label)
         IN  [ok |-> TRUE,
              val |-> DataFrame(keep, [c \in Labels(df) \ {label} |-> df.data[c]])]

-----------------------------------------------------------------------------
(* The functions the notebook defines.  Each returns the frame as the      *)
(* statements executed so far left it, and the exception raised ("" when   *)
(* none): clean and to_float assign into the frame they are given.         *)

NoExc == ""

CleanColumns == <<" cubicinches", " weightlbs">>

RECURSIVE CleanLoop(_, _)
CleanLoop(df, cols) ==
    IF cols = <<>> THEN [df |-> df, exc |-> NoExc]
    ELSE LET col == Head(cols)
         IN  IF col \notin Labels(df) THEN [df |-> df, exc |-> "KeyError"]
             ELSE LET df1  == SetCol(df, col, SeriesReplace(df.data[col], Blank, NaN))
                      conv == SeriesMapFloat(df1.data[col])
                  IN  IF ~conv.ok THEN [df |-> df1, exc |-> "ValueError"]
                      ELSE LET df2 == SetCol(df1, col, conv.val)
                               df3 == SetCol(df2, col,
                                        SeriesReplace(df2.data[col], NaN,
                                                      SeriesMean(df2.data[col])))
                           IN  CleanLoop(df3, Tail(cols))

clean(df) == CleanLoop(df, CleanColumns)

FloatColumns == <<" cylinders", " hp", " time-to-60", " year">>

\* df[col] = df[col].map(float)
AssignFloat(df, col) ==
    IF col \notin Labels(df) THEN [df |-> df, exc |-> "KeyError"]
    ELSE LET conv == SeriesMapFloat(df.data[col])
         IN  IF ~conv.ok THEN [df |-> df, exc |-> "ValueError"]
             ELSE [df |-> SetCol(df, col, conv.val), exc |-> NoExc]

RECURSIVE FloatLoop(_, _)
FloatLoop(df, cols) ==
    IF cols = <<>> THEN [df |-> df, exc |-> NoExc]
    ELSE LET res == AssignFloat(df, Head(cols))
         IN  IF res.exc # NoExc THEN res ELSE FloatLoop(res.df, Tail(cols))

\* A faulty to_float for C12: the loop leaves out ' cylinders'.
to_float_skips(df) == FloatLoop(df, Tail(FloatColumns))

to_float(df) == FloatLoop(df, FloatColumns)

drop(df) ==
    LET res == DropColumn(df, " brand")
    IN  [df |-> res.val, exc |-> IF res.ok THEN NoExc ELSE "KeyError"]

-----------------------------------------------------------------------------
(* numpy: a 2-d array is the sequence of its rows, a 1-d array the         *)
(* sequence of its elements.                                               *)

NdArray(a) == [t |-> "ndarray", a |-> a]

Column(X, j) == [i \in 1..Len(X) |-> X[i][j]]

NCols(X) == IF X = <<>> THEN 0 ELSE Len(X[1])

Transpose(X) == [j \in 1..NCols(X) |-> Column(X, j)]

Dot(x, y) == FSum([i \in 1..Len(x) |-> FMul(x[i], y[i])])

\* X.dot(Y) for 2-d arrays: ValueError when the shapes are not aligned.
MatMul(X, Y) ==
    [i \in 1..Len(X) |-> [j \in 1..NCols(Y) |-> Dot(X[i], Column(Y, j))]]

\* np.diag(w) of a 1-d array.
Diag(w) ==
    [i \in 1..Len(w) |-> [j \in 1..Len(w) |-> IF i = j THEN w[i] ELSE Num(0)]]

HasNaN(X) == \E i \in 1..Len(X) : \E j \in 1..Len(X[i]) : IsNaN(X[i][j])

\* The float array sklearn makes of a frame (check_array): row i holds the
\* cells of row i in column order, each converted with float; a cell that
\* does not convert raises ValueError.
ToArray(df) ==
    IF \A c \in Labels(df) : SeriesMapFloat(df.data[c]).ok
    THEN [ok |-> TRUE,
          val |-> [i \in 1..NRows(df) |->
                     [j \in 1..Len(df.cols) |-> PyFloat(df.data[df.cols[j]][i]).val]]]
    ELSE [ok |-> FALSE, val |-> <<>>]

\* np.cov(X, rowvar=False): the columns are the variables;
\* c[j][k] = sum_i (X[i][j] - m[j]) (X[i][k] - m[k]) / (N - 1).
Cov(X) ==
    LET N      == Len(X)
        m      == [j \in 1..NCols(X) |-> FDiv(FSum(Column(X, j)), Num(N))]
        dev(j) == [i \in 1..N |-> FSub(X[i][j], m[j])]
    IN  [j \in 1..NCols(X) |->
           [k \in 1..NCols(X) |-> FDiv(Dot(dev(j), dev(k)), Num(N - 1))]]

-----------------------------------------------------------------------------
(* sklearn.preprocessing.StandardScaler.                                   *)

\* StandardScaler(): no fitted attributes yet.
NewScaler == [t |-> "StandardScaler", fitted |-> FALSE]

\* fit: per column the mean and the (population) variance of the cells that
\* are not nan, and scale_ = sqrt(var_) with a zero scale replaced by 1.
ScalerFit(X) ==
    LET col(j)  == SelectPresent(Column(X, j))
        mean(j) == SeriesMean(Column(X, j))
        var(j)  == IF col(j) = <<>> THEN NaN
                   ELSE FDiv(FSum([i \in 1..Len(col(j)) |->
                                     FMul(FSub(col(j)[i], mean(j)),
                                          FSub(col(j)[i], mean(j)))]),
                             Num(Len(col(j))))
        std(j)  == FSqrt(var(j))
    IN  [t |-> "StandardScaler", fitted |-> TRUE,
         mean_  |-> [j \in 1..NCols(X) |-> mean(j)],
         var_   |-> [j \in 1..NCols(X) |-> var(j)],
         scale_ |-> [j \in 1..NCols(X) |->
                       IF std(j) = Num(0) THEN Num(1) ELSE std(j)]]

\* transform: NotFittedError on a scaler that was never fitted, ValueError
\* when the number of columns is not the fitted one; otherwise
\* (x - mean_) / scale_ column by column.  The scaler itself (self) is left
\* as it was.
ScalerTransform(scaler, X) ==
    IF ~scaler.fitted THEN [exc |-> "NotFittedError", val |-> <<>>, self |-> scaler]
    ELSE IF NCols(X) # Len(scaler.mean_)
         THEN [exc |-> "ValueError", val |-> <<>>, self |-> scaler]
    ELSE [exc |-> NoExc,
          val |-> [i \in 1..Len(X) |->
                     [j \in 1..NCols(X) |->
                        FDiv(FSub(X[i][j], scaler.mean_[j]), scaler.scale_[j])]],
          self |-> scaler]

\* fit_transform(X) = fit(X).transform(X)
ScalerFitTransform(X) == ScalerTransform(ScalerFit(X), X)

\* A faulty scale for C1: ss.fit_transform(df) in place of ss.transform(df),
\* which refits the scaler on the table it is given.
scale_refits(scaler, df) ==
    IF scaler = Undef THEN [exc |-> "NameError", val |-> <<>>, self |-> scaler]
    ELSE LET arr == ToArray(df)
         IN  IF ~arr.ok THEN [exc |-> "ValueError", val |-> <<>>, self |-> scaler]
             ELSE ScalerFitTransform(arr.val)

\* A faulty scale for C6: a scaler that was never fitted hands the table
\* back as it came instead of raising.
scale_unfitted(scaler, df) ==
    IF scaler = Undef THEN [exc |-> "NameError", val |-> <<>>, self |-> scaler]
    ELSE LET arr == ToArray(df)
         IN  IF ~arr.ok THEN [exc |-> "ValueError", val |-> <<>>, self |-> scaler]
             ELSE IF ~scaler.fitted THEN [exc |-> NoExc, val |-> arr.val, self |-> scaler]
             ELSE ScalerTransform(scaler, arr.val)

\* scale(df): the notebook's wrapper of ss.transform, ss being the global
\* (self is the scaler after the call).
scale(scaler, df) ==
    IF scaler = Undef THEN [exc |-> "NameError", val |-> <<>>, self |-> scaler]
    ELSE LET arr == ToArray(df)
         IN  IF ~scaler.fitted
             THEN [exc |-> "NotFittedError", val |-> <<>>, self |-> scaler]
             ELSE IF ~arr.ok THEN [exc |-> "ValueError", val |-> <<>>, self |-> scaler]
             ELSE ScalerTransform(scaler, arr.val)

-----------------------------------------------------------------------------
(* sklearn.linear_model.LinearRegression.  The fitted weights are a        *)
(* function of the design matrix (and of the target, which no cell         *)
(* changes); the model keeps the design matrix in their place.             *)

NewRegression == [t |-> "LinearRegression", fitted |-> FALSE]

\* fit(X, y): ValueError when X holds nan.
RegressionFit(X) ==
    IF HasNaN(X) THEN [exc |-> "ValueError", val |-> NewRegression]
    ELSE [exc |-> NoExc,
          val |-> [t |-> "LinearRegression", fitted |-> TRUE, X |-> X]]

\* score(X, y): R^2 of the fitted model on X.
RegressionScore(model, X) ==
    IF ~model.fitted THEN [exc |-> "NotFittedError", val |-> Undef]
    ELSE IF HasNaN(X) \/ NCols(X) # NCols(model.X)
         THEN [exc |-> "ValueError", val |-> Undef]
    ELSE [exc |-> NoExc, val |-> [t |-> "r2", fit_on |-> model.X, of |-> X]]

-----------------------------------------------------------------------------
(* np.linalg.eig.  LAPACK promises eigenvalues w and a matrix whose column *)
(* i is a unit-norm eigenvector for w[i]; it promises neither an order of  *)
(* the eigenvalues nor a sign of the eigenvectors.  The model finds the    *)
(* eigenvectors among the integer directions with components within        *)
(* MaxComp and returns the orders within MaxMoved and the signs within     *)
(* MaxFlips.  It covers the matrices with rational entries and n distinct  *)
(* eigenvalues whose eigenvectors lie along such directions.               *)

\* The integer directions, one per line through the origin: not zero, in
\* lowest terms, the first non-zero component positive.
RECURSIVE GcdOf(_)
GcdOf(d) == IF d = <<>> THEN 0 ELSE GCD(Head(d), GcdOf(Tail(d)))

FirstNonZero(d) == CHOOSE k \in 1..Len(d) : d[k] # 0 /\ \A j \in 1..(k - 1) : d[j] = 0

Directions(n) ==
    {d \in [1..n -> (-MaxComp)..MaxComp] :
        /\ \E k \in 1..n : d[k] # 0
        /\ GcdOf(d) = 1
        /\ d[FirstNonZero(d)] > 0}

MatVec(M, d) == [i \in 1..Len(M) |-> Dot(M[i], [j \in 1..Len(d) |-> Num(d[j])])]

\* The eigenvalue of direction d when M d = lambda d, else Undef.
EigenvalueOf(M, d) ==
    LET w   == MatVec(M, d)
        k   == FirstNonZero(d)
        lam == FDiv(w[k], Num(d[k]))
    IN  IF \A i \in 1..Len(d) : w[i] = FMul(lam, Num(d[i])) THEN lam ELSE Undef

EigenDirections(M) ==
    {[val |-> EigenvalueOf(M, d), dir |-> d] :
        d \in {e \in Directions(Len(M)) : EigenvalueOf(M, e) # Undef}}

RECURSIVE SortDescending(_)
SortDescending(S) ==
    IF S = {} THEN <<>>
    ELSE LET top == CHOOSE x \in S : \A y \in S : ~FLess(x.val, y.val)
         IN  <<top>> \o SortDescending(S \ {top})

\* A faulty UnitVector for C10: the direction is not divided by its norm.
UnitVectorUnscaled(d) == [i \in 1..Len(d) |-> Num(d[i])]

\* d / |d|
UnitVector(d) ==
    LET nsq == FSum([i \in 1..Len(d) |-> Num(d[i] * d[i])])
    IN  [i \in 1..Len(d) |-> FDiv(Num(d[i]), FSqrt(nsq))]

FlipSets(n) == SUBSET (1..(IF n < MaxFlips THEN n ELSE MaxFlips))

Orders(n) ==
    {p \in Permutations(1..n) : Cardinality({i \in 1..n : p[i] # i}) <= MaxMoved}

\* A faulty EigAnswer for C9: the eigenvalues are permuted, the columns of
\* eigenvectors are not, so column i no longer belongs to w[i].
EigAnswerMispaired(pairs, perm, flip) ==
    LET n      == Len(pairs)
        vec(i) == LET u == UnitVector(pairs[i].dir)
                  IN  IF i \in flip THEN [k \in 1..n |-> FNeg(u[k])] ELSE u
    IN  [w    |-> [i \in 1..n |-> pairs[perm[i]].val],
         vecs |-> [k \in 1..n |-> [i \in 1..n |-> vec(i)[k]]]]

\* One answer of eig: the eigenpairs in the order given by perm, those in
\* flip negated; w is the 1-d array of eigenvalues, vecs the 2-d array
\* whose column i is the eigenvector of w[i].
EigAnswer(pairs, perm, flip) ==
    LET n      == Len(pairs)
        vec(i) == LET u == UnitVector(pairs[perm[i]].dir)
                  IN  IF i \in flip THEN [k \in 1..n |-> FNeg(u[k])] ELSE u
    IN  [w    |-> [i \in 1..n |-> pairs[perm[i]].val],
         vecs |-> [k \in 1..n |-> [i \in 1..n |-> vec(i)[k]]]]

\* Every answer np.linalg.eig(M) may give.
Eig(M) ==
    LET n     == Len(M)
        pairs == SortDescending(EigenDirections(M))
    IN  IF Len(pairs) # n THEN {}
        ELSE {EigAnswer(pairs, perm, flip) :
                 perm \in Orders(n), flip \in FlipSets(n)}

-----------------------------------------------------------------------------
(* The csv files the runs start from.  cars.csv is an input of the         *)
(* notebook; a dataset is the file's rows as train_test_split deals them   *)
(* (the target column mpg, which no modelled cell reads, is left out).     *)

Ints(xs) == [i \in 1..Len(xs) |-> PyInt(xs[i])]

RECURSIVE DigitsOf(_)
DigitsOf(i) ==
    LET c == CHOOSE ch \in Digits : DigitVal[ch] = i % 10
    IN  IF i < 10 THEN <<c>> ELSE DigitsOf(i \div 10) \o <<c>>

\* How read_csv gives a column that holds a blank: every cell a str.
Strs(xs) == [i \in 1..Len(xs) |-> IF xs[i] < 0 THEN Blank ELSE Str(DigitsOf(xs[i]))]

Brands(n) == [i \in 1..n |-> Str(<<"U", "S">>)]

AllColumns == <<" cylinders", " cubicinches", " hp", " weightlbs",
                " time-to-60", " year", " brand">>

Frame6(cyl, cub, hp, wt, t60, yr) ==
    DataFrame(AllColumns,
              (" cylinders" :> cyl) @@ (" cubicinches" :> cub) @@ (" hp" :> hp)
              @@ (" weightlbs" :> wt) @@ (" time-to-60" :> t60) @@ (" year" :> yr)
              @@ (" brand" :> Brands(Len(cyl))))

Frame2(cub, wt) ==
    DataFrame(<<" cubicinches", " weightlbs", " brand">>,
              (" cubicinches" :> cub) @@ (" weightlbs" :> wt)
              @@ (" brand" :> Brands(Len(cub))))

\* Training rows whose standardized covariance matrix has six distinct
\* eigenvalues with eigenvectors along (0,1,0,1,0,0), (1,0,1,0,0,0), ...
TrainCyl == <<6, 6, 6, 6, 8, 6, 6, 4>>
TrainCub == <<18, 16, 4, 2, 10, 10, 10, 10>>
TrainHp  == <<50, 50, 50, 50, 58, 56, 44, 42>>
TrainWt  == <<26, 28, 12, 14, 20, 20, 20, 20>>
TrainT60 == <<22, 8, 8, 22, 16, 14, 14, 16>>
TrainYr  == <<78, 76, 76, 78, 84, 70, 70, 84>>

\* The same rows with blanks (written -1 here) in ' cubicinches' and
\* ' weightlbs'.
TrainCubBlank == <<18, 16, 4, 2, -1, 10, 10, 10>>
TrainWtBlank  == <<26, 28, 12, 14, 20, 20, -1, 20>>
TrainHpBlank  == <<50, 50, 50, 50, 58, -1, 44, 42>>

Datasets ==
    { \* blanks that the cells impute, in the training and in the test rows
      [train |-> Frame6(Ints(TrainCyl), Strs(TrainCubBlank), Ints(TrainHp),
                        Strs(TrainWtBlank), Ints(TrainT60), Ints(TrainYr)),
       test  |-> Frame6(Ints(<<4, 8>>), Ints(<<12, 20>>), Ints(<<40, 60>>),
                        Strs(<<-1, 30>>), Ints(<<10, 20>>), Ints(<<72, 82>>))],
      \* a blank in a training column that no cell imputes; a test column
      \* that is blank throughout
      [train |-> Frame6(Ints(TrainCyl), Ints(TrainCub), Strs(TrainHpBlank),
                        Ints(TrainWt), Ints(TrainT60), Ints(TrainYr)),
       test  |-> Frame6(Ints(<<4, 8>>), Strs(<<-1, -1>>), Ints(<<40, 60>>),
                        Ints(<<25, 30>>), Ints(<<10, 20>>), Ints(<<72, 82>>))],
      \* such a blank in the training rows, none in the test rows
      [train |-> Frame6(Ints(TrainCyl), Ints(TrainCub), Strs(TrainHpBlank),
                        Ints(TrainWt), Ints(TrainT60), Ints(TrainYr)),
       test  |-> Frame6(Ints(<<4, 8>>), Ints(<<12, 20>>), Ints(<<40, 60>>),
                        Strs(<<-1, 30>>), Ints(<<10, 20>>), Ints(<<72, 82>>))],
      \* such a blank in the test rows too
      [train |-> Frame6(Ints(TrainCyl), Ints(TrainCub), Strs(TrainHpBlank),
                        Ints(TrainWt), Ints(TrainT60), Ints(TrainYr)),
       test  |-> Frame6(Ints(<<4, 8>>), Ints(<<12, 20>>), Strs(<<40, -1>>),
                        Ints(<<25, 30>>), Ints(<<10, 20>>), Ints(<<72, 82>>))],
      \* a file with two feature columns only
      [train |-> Frame2(Ints(TrainCub), Strs(TrainWtBlank)),
       test  |-> Frame2(Ints(<<12, 20>>), Strs(<<-1, 30>>))] }

-----------------------------------------------------------------------------
(* The run.                                                                *)

\* The code cells in notebook order, each named by the source line of its
\* first statement (the import cell and the comment-only cells bind nothing).
Cells == <<58, 67, 78, 89, 100, 116, 127, 138, 150, 164, 176, 186, 196, 210, 221,
           266, 276, 287, 298, 324, 339, 350, 361, 395, 411, 500,
           583, 596, 606, 634, 645, 654, 663>>

At(line) == ~halted /\ pc \in 1..Len(Cells) /\ Cells[pc] = line

\* The run is over: abandoned after an exception, or past the last cell.
RunOver == halted \/ pc > Len(Cells)

\* Whether the cell that starts at `line` has been executed.
Ran(line) == \E i \in 1..Len(Cells) : Cells[i] = line /\ i < pc

\* The cell ends, with exception e ("" when it raised nothing).
Ends(e) == pc' = pc + 1 /\ err' = e

\* What a displayed expression leaves in Out when no claim reads its value.
Shown(expr) == [t |-> "shown", expr |-> expr]

Init ==
    /\ pc = 1 /\ err = NoExc /\ halted = FALSE /\ Out = Undef /\ defs = {}
    /\ cars = Undef /\ X_train = Undef /\ X_test = Undef /\ ss = Undef
    /\ X_tr_sc = Undef /\ lr = Undef
    /\ test_cleaned = Undef /\ test_floated = Undef /\ test_dropped = Undef
    /\ test_scaled = Undef
    /\ A = Undef /\ v = Undef /\ q = Undef /\ cov_mat = Undef
    /\ eigvals = Undef /\ eigvecs = Undef /\ eigpairs = Undef /\ pcabh = Undef
    /\ X_train_new = Undef /\ lr_pca = Undef /\ pca = Undef /\ X_te_sc = Undef
    /\ X_test_new = Undef

\* cars = pd.read_csv(...)
Cell58 ==
    /\ At(58)
    /\ \E ds \in Datasets : cars' = ds
    /\ Ends(NoExc)
    /\ UNCHANGED <<halted, Out, defs, X_train, X_test, ss, X_tr_sc, lr,
                 test_cleaned, test_floated, test_dropped, test_scaled, A, v,
                 q, cov_mat, eigvals, eigvecs, eigpairs, pcabh, X_train_new,
                 lr_pca, pca, X_te_sc, X_test_new>>

\* X_train, X_test, y_train, y_test = train_test_split(...)
Cell67 ==
    /\ At(67)
    /\ X_train' = cars.train
    /\ X_test' = cars.test
    /\ Ends(NoExc)
    /\ UNCHANGED <<halted, Out, defs, cars, ss, X_tr_sc, lr, test_cleaned,
                 test_floated, test_dropped, test_scaled, A, v, q, cov_mat,
                 eigvals, eigvecs, eigpairs, pcabh, X_train_new, lr_pca, pca,
                 X_te_sc, X_test_new>>

\* The three statements of a training-set imputation cell on column col:
\*   X_train[col].replace(' ', np.nan, inplace=True)
\*   X_train[col] = X_train[col].map(float)
\*   X_train[col].fillna(X_train[col].mean(), inplace=True)
TrainImpute(df, col) ==
    IF col \notin Labels(df) THEN [df |-> df, exc |-> "KeyError"]
    ELSE LET df1  == SetCol(df, col, SeriesReplace(df.data[col], Blank, NaN))
             conv == SeriesMapFloat(df1.data[col])
         IN  IF ~conv.ok THEN [df |-> df1, exc |-> "ValueError"]
             ELSE LET df2 == SetCol(df1, col, conv.val)
                  IN  [df  |-> SetCol(df2, col,
                                 SeriesFillna(df2.data[col], SeriesMean(df2.data[col]))),
                       exc |-> NoExc]

Cell78 ==
    /\ At(78)
    /\ LET res == TrainImpute(X_train, " cubicinches")
       IN  X_train' = res.df /\ Ends(res.exc)
    /\ UNCHANGED <<halted, Out, defs, cars, X_test, ss, X_tr_sc, lr,
                 test_cleaned, test_floated, test_dropped, test_scaled, A, v,
                 q, cov_mat, eigvals, eigvecs, eigpairs, pcabh, X_train_new,
                 lr_pca, pca, X_te_sc, X_test_new>>

Cell89 ==
    /\ At(89)
    /\ LET res == TrainImpute(X_train, " weightlbs")
       IN  X_train' = res.df /\ Ends(res.exc)
    /\ UNCHANGED <<halted, Out, defs, cars, X_test, ss, X_tr_sc, lr,
                 test_cleaned, test_floated, test_dropped, test_scaled, A, v,
                 q, cov_mat, eigvals, eigvecs, eigpairs, pcabh, X_train_new,
                 lr_pca, pca, X_te_sc, X_test_new>>

\* X_train[col] = X_train[col].map(float), four times; the first statement
\* that raises ends the cell.
TrainFloat(res, col) ==
    IF res.exc # NoExc THEN res ELSE AssignFloat(res.df, col)

Cell100 ==
    /\ At(100)
    /\ LET res == TrainFloat(TrainFloat(TrainFloat(TrainFloat(
                      [df |-> X_train, exc |-> NoExc],
                      " cylinders"), " hp"), " time-to-60"), " year")
       IN  X_train' = res.df /\ Ends(res.exc)
    /\ UNCHANGED <<halted, Out, defs, cars, X_test, ss, X_tr_sc, lr,
                 test_cleaned, test_floated, test_dropped, test_scaled, A, v,
                 q, cov_mat, eigvals, eigvecs, eigpairs, pcabh, X_train_new,
                 lr_pca, pca, X_te_sc, X_test_new>>

\* ss = StandardScaler()
Cell116 ==
    /\ At(116)
    /\ ss' = NewScaler
    /\ Ends(NoExc)
    /\ UNCHANGED <<halted, Out, defs, cars, X_train, X_test, X_tr_sc, lr,
                 test_cleaned, test_floated, test_dropped, test_scaled, A, v,
                 q, cov_mat, eigvals, eigvecs, eigpairs, pcabh, X_train_new,
                 lr_pca, pca, X_te_sc, X_test_new>>

\* X_tr_sc = ss.fit_transform(X_train.drop(' brand', axis=1)): the frame is
\* validated before the scaler is touched.
FitCell(scaler, df) ==
    LET dropped == DropColumn(df, " brand")
        arr     == ToArray(dropped.val)
        res     == ScalerFitTransform(arr.val)
    IN  IF ~dropped.ok THEN [exc |-> "KeyError", ss |-> scaler, X_tr_sc |-> Undef]
        ELSE IF ~arr.ok THEN [exc |-> "ValueError", ss |-> scaler, X_tr_sc |-> Undef]
        ELSE [exc |-> res.exc, ss |-> res.self, X_tr_sc |-> NdArray(res.val)]

Cell127 ==
    /\ At(127)
    /\ LET res == FitCell(ss, X_train)
       IN  /\ ss' = res.ss
           /\ X_tr_sc' = IF res.exc = NoExc THEN res.X_tr_sc ELSE X_tr_sc
           /\ Ends(res.exc)
    /\ UNCHANGED <<halted, Out, defs, cars, X_train, X_test, lr, test_cleaned,
                 test_floated, test_dropped, test_scaled, A, v, q, cov_mat,
                 eigvals, eigvecs, eigpairs, pcabh, X_train_new, lr_pca, pca,
                 X_te_sc, X_test_new>>

\* lr = LinearRegression().fit(X_tr_sc, y_train); lr.score(X_tr_sc, y_train)
Cell138 ==
    /\ At(138)
    /\ IF X_tr_sc = Undef
       THEN lr' = lr /\ Out' = Out /\ Ends("NameError")
       ELSE LET fit == RegressionFit(X_tr_sc.a)
                r2  == RegressionScore(fit.val, X_tr_sc.a)
            IN  IF fit.exc # NoExc
                THEN lr' = lr /\ Out' = Out /\ Ends(fit.exc)
                ELSE lr' = fit.val /\ Out' = r2.val /\ Ends(r2.exc)
    /\ UNCHANGED <<halted, defs, cars, X_train, X_test, ss, X_tr_sc,
                 test_cleaned, test_floated, test_dropped, test_scaled, A, v,
                 q, cov_mat, eigvals, eigvecs, eigpairs, pcabh, X_train_new,
                 lr_pca, pca, X_te_sc, X_test_new>>

\* def clean(df): ...
Cell150 ==
    /\ At(150)
    /\ defs' = defs \cup {"clean"}
    /\ Ends(NoExc)
    /\ UNCHANGED <<halted, Out, cars, X_train, X_test, ss, X_tr_sc, lr,
                 test_cleaned, test_floated, test_dropped, test_scaled, A, v,
                 q, cov_mat, eigvals, eigvecs, eigpairs, pcabh, X_train_new,
                 lr_pca, pca, X_te_sc, X_test_new>>

\* def to_float(df): ...
Cell164 ==
    /\ At(164)
    /\ defs' = defs \cup {"to_float"}
    /\ Ends(NoExc)
    /\ UNCHANGED <<halted, Out, cars, X_train, X_test, ss, X_tr_sc, lr,
                 test_cleaned, test_floated, test_dropped, test_scaled, A, v,
                 q, cov_mat, eigvals, eigvecs, eigpairs, pcabh, X_train_new,
                 lr_pca, pca, X_te_sc, X_test_new>>

\* def drop(df): ...
Cell176 ==
    /\ At(176)
    /\ defs' = defs \cup {"drop"}
    /\ Ends(NoExc)
    /\ UNCHANGED <<halted, Out, cars, X_train, X_test, ss, X_tr_sc, lr,
                 test_cleaned, test_floated, test_dropped, test_scaled, A, v,
                 q, cov_mat, eigvals, eigvecs, eigpairs, pcabh, X_train_new,
                 lr_pca, pca, X_te_sc, X_test_new>>

\* def scale(df): ...
Cell186 ==
    /\ At(186)
    /\ defs' = defs \cup {"scale"}
    /\ Ends(NoExc)
    /\ UNCHANGED <<halted, Out, cars, X_train, X_test, ss, X_tr_sc, lr,
                 test_cleaned, test_floated, test_dropped, test_scaled, A, v,
                 q, cov_mat, eigvals, eigvecs, eigpairs, pcabh, X_train_new,
                 lr_pca, pca, X_te_sc, X_test_new>>

\* test_cleaned = clean(X_test); test_floated = to_float(test_cleaned)
\* test_dropped = drop(test_floated); test_scaled = scale(test_dropped)
\* clean and to_float work on X_test itself, so X_test, test_cleaned and
\* test_floated are one frame; a statement that raises ends the cell and
\* binds nothing more.
TestCell(scaler, df) ==
    LET r1   == clean(df)
        r2   == to_float(r1.df)
        r3   == drop(r2.df)
        r4   == scale(scaler, r3.df)
        none == [X_test |-> df, test_cleaned |-> Undef, test_floated |-> Undef,
                 test_dropped |-> Undef, test_scaled |-> Undef, ss |-> scaler,
                 exc |-> NoExc]
    IN  IF r1.exc # NoExc
        THEN [none EXCEPT !.X_test = r1.df, !.exc = r1.exc]
        ELSE IF r2.exc # NoExc
        THEN [none EXCEPT !.X_test = r2.df, !.test_cleaned = r2.df, !.exc = r2.exc]
        ELSE IF r3.exc # NoExc
        THEN [none EXCEPT !.X_test = r2.df, !.test_cleaned = r2.df,
                          !.test_floated = r2.df, !.exc = r3.exc]
        ELSE IF r4.exc # NoExc
        THEN [none EXCEPT !.X_test = r2.df, !.test_cleaned = r2.df,
                          !.test_floated = r2.df, !.test_dropped = r3.df,
                          !.ss = r4.self, !.exc = r4.exc]
        ELSE [X_test |-> r2.df, test_cleaned |-> r2.df, test_floated |-> r2.df,
              test_dropped |-> r3.df, test_scaled |-> NdArray(r4.val),
              ss |-> r4.self, exc |-> NoExc]

\* A name a raising cell did not bind keeps the value it had.
Bound(new, old) == IF new = Undef THEN old ELSE new

Cell196 ==
    /\ At(196)
    /\ \E res \in {IF {"clean", "to_float", "drop", "scale"} \subseteq defs
                    THEN TestCell(ss, X_test)
                    ELSE [X_test |-> X_test, test_cleaned |-> Undef,
                          test_floated |-> Undef, test_dropped |-> Undef,
                          test_scaled |-> Undef, ss |-> ss, exc |-> "NameError"]} :
           /\ X_test' = res.X_test
           /\ test_cleaned' = Bound(res.test_cleaned, test_cleaned)
           /\ test_floated' = Bound(res.test_floated, test_floated)
           /\ test_dropped' = Bound(res.test_dropped, test_dropped)
           /\ test_scaled' = Bound(res.test_scaled, test_scaled)
           /\ ss' = res.ss
           /\ Ends(res.exc)
    /\ UNCHANGED <<halted, Out, defs, cars, X_train, X_tr_sc, lr, A, v, q,
                 cov_mat, eigvals, eigvecs, eigpairs, pcabh, X_train_new,
                 lr_pca, pca, X_te_sc, X_test_new>>

\* lr.score(test_scaled, y_test)
Cell210 ==
    /\ At(210)
    /\ IF lr = Undef \/ test_scaled = Undef
       THEN Out' = Out /\ Ends("NameError")
       ELSE LET r2 == RegressionScore(lr, test_scaled.a)
            IN  Out' = Bound(r2.val, Out) /\ Ends(r2.exc)
    /\ UNCHANGED <<halted, defs, cars, X_train, X_test, ss, X_tr_sc, lr,
                 test_cleaned, test_floated, test_dropped, test_scaled, A, v,
                 q, cov_mat, eigvals, eigvecs, eigpairs, pcabh, X_train_new,
                 lr_pca, pca, X_te_sc, X_test_new>>

\* lr.coef_
Cell221 ==
    /\ At(221)
    /\ IF lr = Undef
       THEN Out' = Out /\ Ends("NameError")
       ELSE Out' = [t |-> "coef", fit_on |-> lr.X] /\ Ends(NoExc)
    /\ UNCHANGED <<halted, defs, cars, X_train, X_test, ss, X_tr_sc, lr,
                 test_cleaned, test_floated, test_dropped, test_scaled, A, v,
                 q, cov_mat, eigvals, eigvecs, eigpairs, pcabh, X_train_new,
                 lr_pca, pca, X_te_sc, X_test_new>>

\* np.ndarray.astype(float), which eig applies to an integer array.
AsFloat(M) == [i \in 1..Len(M) |-> [j \in 1..Len(M[i]) |-> PyFloat(M[i][j]).val]]

\* A = np.array([[5, 3], [3, 5]]); np.linalg.eig(A)
Cell266 ==
    /\ At(266)
    /\ A' = NdArray(<<<<PyInt(5), PyInt(3)>>, <<PyInt(3), PyInt(5)>>>>)
    /\ Out' = Shown("np.linalg.eig(A)")
    /\ Ends(NoExc)
    /\ UNCHANGED <<halted, defs, cars, X_train, X_test, ss, X_tr_sc, lr,
                 test_cleaned, test_floated, test_dropped, test_scaled, v, q,
                 cov_mat, eigvals, eigvecs, eigpairs, pcabh, X_train_new,
                 lr_pca, pca, X_te_sc, X_test_new>>

\* v, q = np.linalg.eig(A)
Cell276 ==
    /\ At(276)
    /\ \E ans \in Eig(AsFloat(A.a)) :
          /\ v' = NdArray(ans.w)
          /\ q' = NdArray(ans.vecs)
    /\ Ends(NoExc)
    /\ UNCHANGED <<halted, Out, defs, cars, X_train, X_test, ss, X_tr_sc, lr,
                 test_cleaned, test_floated, test_dropped, test_scaled, A,
                 cov_mat, eigvals, eigvecs, eigpairs, pcabh, X_train_new,
                 lr_pca, pca, X_te_sc, X_test_new>>

\* np.diag(v)
Cell287 ==
    /\ At(287)
    /\ Out' = NdArray(Diag(v.a))
    /\ Ends(NoExc)
    /\ UNCHANGED <<halted, defs, cars, X_train, X_test, ss, X_tr_sc, lr,
                 test_cleaned, test_floated, test_dropped, test_scaled, A, v,
                 q, cov_mat, eigvals, eigvecs, eigpairs, pcabh, X_train_new,
                 lr_pca, pca, X_te_sc, X_test_new>>

\* q.dot(np.diag(v)).dot(q.T)
Cell298 ==
    /\ At(298)
    /\ Out' = NdArray(MatMul(MatMul(q.a, Diag(v.a)), Transpose(q.a)))
    /\ Ends(NoExc)
    /\ UNCHANGED <<halted, defs, cars, X_train, X_test, ss, X_tr_sc, lr,
                 test_cleaned, test_floated, test_dropped, test_scaled, A, v,
                 q, cov_mat, eigvals, eigvecs, eigpairs, pcabh, X_train_new,
                 lr_pca, pca, X_te_sc, X_test_new>>

\* cov_mat = np.cov(X_tr_sc, rowvar=False); cov_mat.shape
Cell324 ==
    /\ At(324)
    /\ IF X_tr_sc = Undef
       THEN cov_mat' = cov_mat /\ Out' = Out /\ Ends("NameError")
       ELSE /\ cov_mat' = NdArray(Cov(X_tr_sc.a))
            /\ Out' = [t |-> "tuple", a |-> <<NCols(X_tr_sc.a), NCols(X_tr_sc.a)>>]
            /\ Ends(NoExc)
    /\ UNCHANGED <<halted, defs, cars, X_train, X_test, ss, X_tr_sc, lr,
                 test_cleaned, test_floated, test_dropped, test_scaled, A, v,
                 q, eigvals, eigvecs, eigpairs, pcabh, X_train_new, lr_pca,
                 pca, X_te_sc, X_test_new>>

\* np.linalg.eig(cov_mat), displayed only
Cell339 ==
    /\ At(339)
    /\ IF cov_mat = Undef
       THEN Out' = Out /\ Ends("NameError")
       ELSE Out' = Shown("np.linalg.eig(cov_mat)") /\ Ends(NoExc)
    /\ UNCHANGED <<halted, defs, cars, X_train, X_test, ss, X_tr_sc, lr,
                 test_cleaned, test_floated, test_dropped, test_scaled, A, v,
                 q, cov_mat, eigvals, eigvecs, eigpairs, pcabh, X_train_new,
                 lr_pca, pca, X_te_sc, X_test_new>>

\* eigvals, eigvecs = np.linalg.eig(cov_mat): LinAlgError on an array that
\* holds nan.
Cell350 ==
    /\ At(350)
    /\ IF cov_mat = Undef
       THEN eigvals' = eigvals /\ eigvecs' = eigvecs /\ Ends("NameError")
       ELSE IF HasNaN(cov_mat.a)
       THEN eigvals' = eigvals /\ eigvecs' = eigvecs /\ Ends("LinAlgError")
       ELSE \E ans \in Eig(cov_mat.a) :
               /\ eigvals' = NdArray(ans.w)
               /\ eigvecs' = NdArray(ans.vecs)
               /\ Ends(NoExc)
    /\ UNCHANGED <<halted, Out, defs, cars, X_train, X_test, ss, X_tr_sc, lr,
                 test_cleaned, test_floated, test_dropped, test_scaled, A, v,
                 q, cov_mat, eigpairs, pcabh, X_train_new, lr_pca, pca,
                 X_te_sc, X_test_new>>

\* [(eigvals[i], eigvecs[:, i]) for i in range(len(eigvals))]
PairUp(w, vecs) == [i \in 1..Len(w) |-> <<w[i], Column(vecs, i)>>]

Cell361 ==
    /\ At(361)
    /\ IF eigvals = Undef \/ eigvecs = Undef
       THEN eigpairs' = eigpairs /\ Ends("NameError")
       ELSE eigpairs' = [t |-> "list", a |-> PairUp(eigvals.a, eigvecs.a)] /\ Ends(NoExc)
    /\ UNCHANGED <<halted, Out, defs, cars, X_train, X_test, ss, X_tr_sc, lr,
                 test_cleaned, test_floated, test_dropped, test_scaled, A, v,
                 q, cov_mat, eigvals, eigvecs, pcabh, X_train_new, lr_pca,
                 pca, X_te_sc, X_test_new>>

\* The rows asked of reshape(6, 1).
ReshapeRows == 6

\* The eigpairs that pcabh stacks: eigpairs[0], eigpairs[1], eigpairs[2].
StackedPairs == <<1, 2, 3>>

\* vec.reshape(6, 1): ValueError unless vec has six elements.
Reshape(vec) ==
    IF Len(vec) # ReshapeRows THEN [exc |-> "ValueError", val |-> <<>>]
    ELSE [exc |-> NoExc, val |-> [i \in 1..Len(vec) |-> <<vec[i]>>]]

\* np.hstack((eigpairs[0][1].reshape(6, 1), eigpairs[1][1].reshape(6, 1),
\*            eigpairs[2][1].reshape(6, 1))): the arguments are evaluated
\* left to right, an index past the end of the list raises IndexError.
RECURSIVE Stack(_, _, _)
Stack(pairs, idx, acc) ==
    IF idx = <<>> THEN [exc |-> NoExc, val |-> acc]
    ELSE IF Head(idx) > Len(pairs) THEN [exc |-> "IndexError", val |-> <<>>]
    ELSE LET col == Reshape(pairs[Head(idx)][2])
         IN  IF col.exc # NoExc THEN [exc |-> col.exc, val |-> <<>>]
             ELSE Stack(pairs, Tail(idx),
                        IF acc = <<>> THEN col.val
                        ELSE [i \in 1..Len(acc) |-> acc[i] \o col.val[i]])

\* A faulty BuildPcabh for C8: the eigenvectors at hand are stacked, however
\* few, and nothing is raised.
BuildTruncated(pairs) ==
    LET k == IF Len(pairs) < Len(StackedPairs) THEN Len(pairs) ELSE Len(StackedPairs)
    IN  [exc |-> NoExc,
         val |-> [i \in 1..Len(pairs[1][2]) |-> [j \in 1..k |-> pairs[j][2][i]]]]

BuildPcabh(pairs) == Stack(pairs, StackedPairs, <<>>)

Cell395 ==
    /\ At(395)
    /\ IF eigpairs = Undef
       THEN pcabh' = pcabh /\ Out' = Out /\ Ends("NameError")
       ELSE LET res == BuildPcabh(eigpairs.a)
            IN  IF res.exc # NoExc
                THEN pcabh' = pcabh /\ Out' = Out /\ Ends(res.exc)
                ELSE pcabh' = NdArray(res.val) /\ Out' = NdArray(res.val) /\ Ends(NoExc)
    /\ UNCHANGED <<halted, defs, cars, X_train, X_test, ss, X_tr_sc, lr,
                 test_cleaned, test_floated, test_dropped, test_scaled, A, v,
                 q, cov_mat, eigvals, eigvecs, eigpairs, X_train_new, lr_pca,
                 pca, X_te_sc, X_test_new>>

\* X_tr_sc.dot(pcabh), displayed and bound to no name
Project(X, P) ==
    IF NCols(X) # Len(P) THEN [exc |-> "ValueError", val |-> <<>>]
    ELSE [exc |-> NoExc, val |-> MatMul(X, P)]

Cell411 ==
    /\ At(411)
    /\ IF X_tr_sc = Undef \/ pcabh = Undef
       THEN Out' = Out /\ Ends("NameError")
       ELSE LET res == Project(X_tr_sc.a, pcabh.a)
            IN  Out' = (IF res.exc = NoExc THEN NdArray(res.val) ELSE Out) /\ Ends(res.exc)
    /\ UNCHANGED <<halted, defs, cars, X_train, X_test, ss, X_tr_sc, lr,
                 test_cleaned, test_floated, test_dropped, test_scaled, A, v,
                 q, cov_mat, eigvals, eigvecs, eigpairs, pcabh, X_train_new,
                 lr_pca, pca, X_te_sc, X_test_new>>

\* np.linalg.eig(X_tr_sc.T.dot(X_tr_sc)), displayed only
Cell500 ==
    /\ At(500)
    /\ IF X_tr_sc = Undef
       THEN Out' = Out /\ Ends("NameError")
       ELSE Out' = Shown("np.linalg.eig(X_tr_sc.T.dot(X_tr_sc))") /\ Ends(NoExc)
    /\ UNCHANGED <<halted, defs, cars, X_train, X_test, ss, X_tr_sc, lr,
                 test_cleaned, test_floated, test_dropped, test_scaled, A, v,
                 q, cov_mat, eigvals, eigvecs, eigpairs, pcabh, X_train_new,
                 lr_pca, pca, X_te_sc, X_test_new>>

\* ax.plot(X_train_new[:, k], y_train, ...): the three plotting cells read
\* X_train_new (the names of the plotting library are not modelled).
PlotCell == IF X_train_new = Undef THEN "NameError" ELSE NoExc

Cell583 ==
    /\ At(583)
    /\ Ends(PlotCell)
    /\ UNCHANGED <<halted, Out, defs, cars, X_train, X_test, ss, X_tr_sc, lr,
                 test_cleaned, test_floated, test_dropped, test_scaled, A, v,
                 q, cov_mat, eigvals, eigvecs, eigpairs, pcabh, X_train_new,
                 lr_pca, pca, X_te_sc, X_test_new>>

Cell596 ==
    /\ At(596)
    /\ Ends(PlotCell)
    /\ UNCHANGED <<halted, Out, defs, cars, X_train, X_test, ss, X_tr_sc, lr,
                 test_cleaned, test_floated, test_dropped, test_scaled, A, v,
                 q, cov_mat, eigvals, eigvecs, eigpairs, pcabh, X_train_new,
                 lr_pca, pca, X_te_sc, X_test_new>>

Cell606 ==
    /\ At(606)
    /\ Ends(PlotCell)
    /\ UNCHANGED <<halted, Out, defs, cars, X_train, X_test, ss, X_tr_sc, lr,
                 test_cleaned, test_floated, test_dropped, test_scaled, A, v,
                 q, cov_mat, eigvals, eigvecs, eigpairs, pcabh, X_train_new,
                 lr_pca, pca, X_te_sc, X_test_new>>

\* lr_pca = LinearRegression(); lr_pca.fit(X_train_new, y_train)
\* lr_pca.score(X_train_new, y_train)
Cell634 ==
    /\ At(634)
    /\ IF X_train_new = Undef
       THEN lr_pca' = NewRegression /\ Out' = Out /\ Ends("NameError")
       ELSE LET fit == RegressionFit(X_train_new.a)
                r2  == RegressionScore(fit.val, X_train_new.a)
            IN  /\ lr_pca' = fit.val
                /\ Out' = Bound(r2.val, Out)
                /\ Ends(IF fit.exc # NoExc THEN fit.exc ELSE r2.exc)
    /\ UNCHANGED <<halted, defs, cars, X_train, X_test, ss, X_tr_sc, lr,
                 test_cleaned, test_floated, test_dropped, test_scaled, A, v,
                 q, cov_mat, eigvals, eigvecs, eigpairs, pcabh, X_train_new,
                 pca, X_te_sc, X_test_new>>

\* X_test_new = pca.transform(X_te_sc)
Cell645 ==
    /\ At(645)
    /\ IF pca = Undef \/ X_te_sc = Undef
       THEN X_test_new' = X_test_new /\ Ends("NameError")
       ELSE /\ X_test_new' = [t |-> "transformed", by |-> pca, of |-> X_te_sc]
            /\ Ends(NoExc)
    /\ UNCHANGED <<halted, Out, defs, cars, X_train, X_test, ss, X_tr_sc, lr,
                 test_cleaned, test_floated, test_dropped, test_scaled, A, v,
                 q, cov_mat, eigvals, eigvecs, eigpairs, pcabh, X_train_new,
                 lr_pca, pca, X_te_sc>>

\* lr_pca.score(X_test_new, y_test)
Cell654 ==
    /\ At(654)
    /\ IF lr_pca = Undef \/ X_test_new = Undef
       THEN Out' = Out /\ Ends("NameError")
       ELSE LET r2 == RegressionScore(lr_pca, X_test_new.a)
            IN  Out' = Bound(r2.val, Out) /\ Ends(r2.exc)
    /\ UNCHANGED <<halted, defs, cars, X_train, X_test, ss, X_tr_sc, lr,
                 test_cleaned, test_floated, test_dropped, test_scaled, A, v,
                 q, cov_mat, eigvals, eigvecs, eigpairs, pcabh, X_train_new,
                 lr_pca, pca, X_te_sc, X_test_new>>

\* lr_pca.coef_: an estimator that was never fitted has no coef_.
Cell663 ==
    /\ At(663)
    /\ IF lr_pca = Undef THEN Out' = Out /\ Ends("NameError")
       ELSE IF ~lr_pca.fitted THEN Out' = Out /\ Ends("AttributeError")
       ELSE Out' = [t |-> "coef", fit_on |-> lr_pca.X] /\ Ends(NoExc)
    /\ UNCHANGED <<halted, defs, cars, X_train, X_test, ss, X_tr_sc, lr,
                 test_cleaned, test_floated, test_dropped, test_scaled, A, v,
                 q, cov_mat, eigvals, eigvecs, eigpairs, pcabh, X_train_new,
                 lr_pca, pca, X_te_sc, X_test_new>>

\* The run is abandoned at the cell that raised (Run All stops there); when
\* it is not, the next cell runs in the namespace the failed cell left.
Stop ==
    /\ ~halted
    /\ err # NoExc
    /\ pc <= Len(Cells)
    /\ halted' = TRUE
    /\ UNCHANGED <<pc, err>>
    /\ UNCHANGED <<Out, defs, cars, X_train, X_test, ss, X_tr_sc, lr,
                 test_cleaned, test_floated, test_dropped, test_scaled, A, v,
                 q, cov_mat, eigvals, eigvecs, eigpairs, pcabh, X_train_new,
                 lr_pca, pca, X_te_sc, X_test_new>>

Next ==
    \/ Cell58 \/ Cell67 \/ Cell78 \/ Cell89 \/ Cell100 \/ Cell116 \/ Cell127
    \/ Cell138 \/ Cell150 \/ Cell164 \/ Cell176 \/ Cell186 \/ Cell196 \/ Cell210
    \/ Cell221 \/ Cell266 \/ Cell276 \/ Cell287 \/ Cell298 \/ Cell324 \/ Cell339
    \/ Cell350 \/ Cell361 \/ Cell395 \/ Cell411 \/ Cell500 \/ Cell583 \/ Cell596
    \/ Cell606 \/ Cell634 \/ Cell645 \/ Cell654 \/ Cell663 \/ Stop

Spec == Init /\ [][Next]_vars

-----------------------------------------------------------------------------
(* Properties.                                                             *)

\* The cell that starts at `line` is the last one executed.
After(line) == \E i \in 1..Len(Cells) : Cells[i] = line /\ pc = i + 1

IsFitted(est) == est # Undef /\ est.fitted

Range(seq) == {seq[i] : i \in 1..Len(seq)}

\* The array that cell 127 fits the scaler on.
TrainArray == ToArray(DropColumn(X_train, " brand").val).val

\* C1: the scaler's parameters are set once, by the fit on the training
\* table; a fitted scaler is never changed again (scale on the test table
\* leaves it as it is), and a scaler becomes fitted only in cell 127, with the
\* parameters of the training array.
C1_FittedOnceOnTraining ==
    [][/\ IsFitted(ss) => ss' = ss
       /\ ~IsFitted(ss) /\ IsFitted(ss') => At(127) /\ ss' = ScalerFit(TrainArray)]_vars

\* The test table has been scaled by the scaler fitted on the training table.
C1_Witness ==
    After(196) /\ err = NoExc /\ IsFitted(ss) /\ test_scaled # Undef

\* The k-th largest of the eigenvalues w.
Largest(w, k) ==
    CHOOSE x \in Range(w) : Cardinality({y \in Range(w) : FLess(x, y)}) = k - 1

\* C2: column j of the projection matrix is the eigenvector that eigpairs
\* pairs with the j-th largest eigenvalue, whatever the order in which eig
\* returned the eigenvalues.
C2_TopKDescending ==
    pcabh # Undef =>
        \A j \in 1..Len(StackedPairs) :
            \E i \in 1..Len(eigpairs.a) :
                /\ eigpairs.a[i][1] = Largest(eigvals.a, j)
                /\ Column(pcabh.a, j) = eigpairs.a[i][2]

\* C3: the table that clean, to_float and drop give has the rows of the
\* table they were given and a number in every cell.
C3_PreprocessedNumeric ==
    test_dropped # Undef =>
        /\ NRows(test_dropped) = NRows(cars.test)
        /\ \A c \in Labels(test_dropped) :
              \A i \in 1..NRows(test_dropped) : IsFloat(test_dropped.data[c][i])

\* C4: a run that has built the projection matrix and is over has
\* executed the cell of the second regression and fitted it.
C4_ReachesSecondRegression ==
    RunOver /\ pcabh # Undef => Ran(634) /\ IsFitted(lr_pca)

\* C5: once the cell that projects the test data has been executed, the
\* projected test data is the scaled test table times pcabh, the matrix the
\* training data was projected with.
C5_TestProjectedByPcabh ==
    Ran(645) /\ pcabh # Undef /\ test_scaled # Undef =>
        /\ X_test_new # Undef
        /\ X_test_new = NdArray(MatMul(test_scaled.a, pcabh.a))

\* C6: when cell 196 gets as far as scale (drop has returned) with a scaler
\* that was never fitted, the cell ends in NotFittedError and test_scaled
\* stays unbound.
C6_TransformBeforeFit ==
    [][At(196) /\ ss # Undef /\ ~IsFitted(ss) /\ test_dropped' # Undef
          => err' = "NotFittedError" /\ test_scaled' = Undef]_vars

\* scale was called with the unfitted scaler and raised.
C6_Witness ==
    /\ After(196) /\ err = "NotFittedError"
    /\ ss # Undef /\ ~IsFitted(ss)
    /\ test_dropped # Undef /\ test_scaled = Undef

AllBlank(series) == \A i \in 1..Len(series) : series[i] = Blank

\* C7: when ' cubicinches' or ' weightlbs' of the test rows is blank
\* throughout, clean raises (test_cleaned stays unbound) or the column it
\* returns holds no missing cell.
C7_AllBlankFailsFast ==
    \A c \in Range(CleanColumns) :
        Ran(196) /\ c \in Labels(cars.test) /\ AllBlank(cars.test.data[c]) =>
            \/ test_cleaned = Undef
            \/ \A i \in 1..NRows(test_cleaned) : ~IsNaN(test_cleaned.data[c][i])

\* C8: when eigpairs holds fewer pairs than pcabh stacks, cell 395 ends in
\* an exception and binds no pcabh; a pcabh that is bound has as many
\* columns as the cell stacks.
C8_TooFewFeatures ==
    [][At(395) =>
          /\ eigpairs # Undef /\ Len(eigpairs.a) < Len(StackedPairs)
                => err' # NoExc /\ pcabh' = Undef
          /\ pcabh' # Undef => NCols(pcabh'.a) = Len(StackedPairs)]_vars

\* Cell 395 ran on the two eigenpairs of a two-feature file and raised.
C8_Witness ==
    /\ After(395) /\ err = "ValueError"
    /\ eigpairs # Undef /\ Len(eigpairs.a) = 2
    /\ pcabh = Undef

\* 1 / sqrt(2)
InvSqrt2 == FDiv(Num(1), FSqrt(Num(2)))

\* C9: for A = [[5, 3], [3, 5]] eig gives the eigenvalues 2 and 8, the
\* eigenvector of 2 is +-(1, -1)/sqrt(2), that of 8 is +-(1, 1)/sqrt(2), and
\* q.dot(np.diag(v)).dot(q.T) is A.
C9_EigOfA ==
    /\ Ran(276) =>
          /\ Len(v.a) = 2
          /\ Range(v.a) = {Num(2), Num(8)}
          /\ \A i \in 1..2 :
                /\ v.a[i] = Num(2) =>
                      Column(q.a, i) \in {<<InvSqrt2, FNeg(InvSqrt2)>>,
                                          <<FNeg(InvSqrt2), InvSqrt2>>}
                /\ v.a[i] = Num(8) =>
                      Column(q.a, i) \in {<<InvSqrt2, InvSqrt2>>,
                                          <<FNeg(InvSqrt2), FNeg(InvSqrt2)>>}
    /\ After(298) => Out = NdArray(AsFloat(A.a))

\* The product was displayed for an answer of eig that is not in descending
\* order and has a flipped eigenvector.
C9_Witness ==
    /\ After(298) /\ Out = NdArray(AsFloat(A.a))
    /\ v.a = <<Num(2), Num(8)>>
    /\ Column(q.a, 1) = <<FNeg(InvSqrt2), InvSqrt2>>

\* C10: the eigenvectors in eigpairs have squared components that sum to 1,
\* and two of them with different eigenvalues have dot product 0.
C10_Orthonormal ==
    eigpairs # Undef =>
        \A i, j \in 1..Len(eigpairs.a) :
            /\ Dot(eigpairs.a[i][2], eigpairs.a[i][2]) = Num(1)
            /\ eigpairs.a[i][1] # eigpairs.a[j][1] =>
                  Dot(eigpairs.a[i][2], eigpairs.a[j][2]) = Num(0)

\* eigpairs holds the six eigenpairs of the training covariance matrix, not
\* in descending order.
C10_Witness ==
    /\ eigpairs # Undef /\ Len(eigpairs.a) = 6
    /\ \E i \in 1..5 : FLess(eigpairs.a[i][1], eigpairs.a[i + 1][1])

\* The cells of a column as read from the csv that are not the blank
\* placeholder, as floats.
PresentCells(series) ==
    SelectSeq([i \in 1..Len(series) |-> PyFloat(series[i]).val], LAMBDA x : IsFloat(x))

\* m is the mean of the cells of the column that are not blank.
IsMeanOfPresent(m, series) ==
    /\ IsFloat(m)
    /\ PresentCells(series) # <<>>
    /\ FMul(m, Num(Len(PresentCells(series)))) = FSum(PresentCells(series))

\* C11: in the table clean returns, a cell of ' cubicinches' or ' weightlbs'
\* that was blank holds the mean of the cells of that column of the same
\* table that were not blank, and a cell that was not blank holds the
\* number it held.
C11_CleanImputesColumnMean ==
    test_cleaned # Undef =>
        \A c \in Range(CleanColumns) \cap Labels(cars.test) :
            \A i \in 1..NRows(cars.test) :
                IF cars.test.data[c][i] = Blank
                THEN IsMeanOfPresent(test_cleaned.data[c][i], cars.test.data[c])
                ELSE test_cleaned.data[c][i] = PyFloat(cars.test.data[c][i]).val

-----------------------------------------------------------------------------
(* The cells up to the test-set chain, on files whose rows come in equal   *)
(* pairs that train_test_split deals one to each side: the training-set    *)
(* cells and the chain clean, to_float, drop then work on equal tables.    *)

\* A csv column as read_csv gives it: str cells when a cell is blank
\* (written -1 here), int cells otherwise.
CsvColumn(xs) == IF \E i \in 1..Len(xs) : xs[i] < 0 THEN Strs(xs) ELSE Ints(xs)

\* What a cell of ' cubicinches' or ' weightlbs' holds: blank or a number.
CellChoices == {-1, 10, 30}

\* Column i + offset, i the row.
Counting(offset) == [i \in 1..MaxRows |-> i + offset]

SameTables ==
    {Frame6(CsvColumn(Counting(3)), CsvColumn(cub),
            CsvColumn([i \in 1..MaxRows |-> IF i = 1 /\ hpBlank THEN -1 ELSE 40 + i]),
            CsvColumn(wt), CsvColumn(Counting(8)), CsvColumn(Counting(70))) :
        cub \in [1..MaxRows -> CellChoices], wt \in [1..MaxRows -> CellChoices],
        hpBlank \in BOOLEAN}
    \cup {Frame2(CsvColumn(cub), CsvColumn(Counting(20))) :
             cub \in [1..MaxRows -> CellChoices]}

\* cars = pd.read_csv(...) of such a file
Cell58Same ==
    /\ At(58)
    /\ \E tbl \in SameTables : cars' = [train |-> tbl, test |-> tbl]
    /\ Ends(NoExc)
    /\ UNCHANGED <<halted, Out, defs, X_train, X_test, ss, X_tr_sc, lr,
                 test_cleaned, test_floated, test_dropped, test_scaled, A, v,
                 q, cov_mat, eigvals, eigvecs, eigpairs, pcabh, X_train_new,
                 lr_pca, pca, X_te_sc, X_test_new>>

ChainNext ==
    \/ Cell58Same \/ Cell67 \/ Cell78 \/ Cell89 \/ Cell100 \/ Cell116 \/ Cell127
    \/ Cell138 \/ Cell150 \/ Cell164 \/ Cell176 \/ Cell186 \/ Cell196 \/ Stop

ChainSpec == Init /\ [][ChainNext]_vars

\* Every column that the training-set cells convert is there and holds
\* floats or nan throughout.
Converted(df) ==
    \A c \in Range(CleanColumns) \cup Range(FloatColumns) :
        /\ c \in Labels(df)
        /\ \A i \in 1..NRows(df) : IsFloat(df.data[c][i]) \/ IsNaN(df.data[c][i])

\* C12: on equal tables, the chain clean, to_float, drop and the
\* training-set cells followed by drop(' brand') give the same table: the
\* frame the chain worked on equals the frame the cells worked on, the
\* table the chain returns is that frame without ' brand', and the chain
\* raises only where the cells leave a column unconverted or ' brand' is
\* missing.
C12_ChainEqualsInlineSteps ==
    Ran(196) /\ cars.train = cars.test =>
        /\ X_test = X_train
        /\ test_dropped # Undef =>
              /\ DropColumn(X_train, " brand").ok
              /\ test_dropped = DropColumn(X_train, " brand").val
        /\ test_dropped = Undef =>
              ~Converted(X_train) \/ ~DropColumn(X_train, " brand").ok

\* Both ran on a table with a blank that is imputed and returned a table.
C12_Witness ==
    /\ Ran(196) /\ cars.train = cars.test
    /\ test_dropped # Undef
    /\ \E i \in 1..NRows(cars.test) :
          /\ cars.test.data[" weightlbs"][i] = Blank
          /\ IsFloat(test_dropped.data[" weightlbs"][i])

====
